---- MODULE Spec2Model ----
(***************************************************************************)
(* Model of internal/app/unitofwork/uow.go: UnitOfWork.Atomic runs a       *)
(* caller-supplied body inside one storage transaction and publishes the   *)
(* events the body accumulated when the body returns nil.                  *)
(*                                                                         *)
(* One call of Atomic is modelled statement by statement (pc names the     *)
(* next statement, by source line).  The collaborators (db.Begin,          *)
(* newContext, the body, tx.Rollback, CollectEvents, PublishEvents) are    *)
(* the environment: each may return normally, return an error or panic.    *)
(* The ambient context may be canceled by the environment at any moment.   *)
(***************************************************************************)
EXTENDS Naturals, Sequences, FiniteSets

(* ---------------------------- bounds ----------------------------------- *)

\* most events the body accumulates in one attempt
MaxEvents == 2

\* number of Atomic calls running concurrently on one UnitOfWork
NumAttempts == 2

\* most events one body accumulates when attempts run concurrently
MaxConcEvents == 1

(* ---------------------------- errors ----------------------------------- *)

\* An error value: a leaf (errors.New), a %w wrapper (one sub-error) or a
\* join (several sub-errors).  Nil is the nil error.
Nil == [kind |-> "nil", msg |-> "", subs |-> <<>>]

Leaf(m) == [kind |-> "leaf", msg |-> m, subs |-> <<>>]

\* fmt.Errorf(m + ": %w", e)
Errorf(m, e) == [kind |-> "wrap", msg |-> m, subs |-> <<e>>]

\* errors.Join(es...) for non-nil es
Join(es) == [kind |-> "join", msg |-> "", subs |-> es]

ErrRollback == Leaf("rollback")

\* errors.Is(e, t): e is t, or something e unwraps to is t
RECURSIVE Is(_, _)
Is(e, t) ==
    \/ e = t
    \/ \E i \in 1..Len(e.subs) : Is(e.subs[i], t)

\* variant: the rollback marker is not joined to the wrapped error
stateRollbackError_NoMarker(err) == Errorf("state rollback", err)

stateRollbackError(err) ==
    Join(<<Errorf("state rollback", err), ErrRollback>>)

\* variant: the publication error is tagged like a rollback
publishError_Tagged(err) ==
    Join(<<Errorf("state rollback", err), Leaf("rollback")>>)

\* what line 82 returns for a publication error
publishError(err) == err

(* ------------------------ environment inputs --------------------------- *)

Events == {"e1", "e2"}

BeginErrs    == {Leaf("F")}
FactoryErrs  == {Leaf("C")}
BodyErrs     == {Leaf("E"), Errorf("usecase", Leaf("E0"))}
RollbackErrs == {Leaf("R")}
PublishErrs  == {Leaf("G")}

NoPanic      == "none"
BodyPanics   == {"P1", "P2"}
CollabPanics == {"Q"}

(* ------------------------------ state ---------------------------------- *)

VARIABLES
    pc,          \* next statement of Atomic
    tx,          \* the transaction handle: none, open, committed, rolledback
    ctxCanceled, \* the ambient ctx passed to Atomic is canceled
    txCtx,       \* the derived child ctx: none, active, canceled
    defers,      \* stack of deferred calls, last pushed is last element
    panicking,   \* value of the panic in flight, or NoPanic
    recovered,   \* r of line 62
    bodyOut,     \* what the body did: notrun, running, nil, err, panic
    bodyErr,     \* the error the body returned (err of line 73)
    bodyPanic,   \* the value the body panicked with
    evbuf,       \* events accumulated on the atomic context
    emitted,     \* every event the body emitted, in emission order
    collected,   \* the result of CollectEvents() at line 80
    published,   \* the batch of every PublishEvents call, in call order
    pubErr,      \* err of line 80
    calls,       \* collaborator calls made by Atomic, in order
    logs,        \* logger.Error records
    exit,        \* running, returned, panicked
    ret,         \* the error Atomic returned
    exitPanic    \* the panic value that left Atomic

\* Concurrent calls of Atomic on one UnitOfWork value: what each call holds
\* in its locals and what the shared collaborators have seen.
VARIABLES
    apc,         \* attempt -> its next statement
    atx,         \* attempt -> the handle in its local tx (0: none)
    actx,        \* attempt -> the context in its local atomicCtx (0: none)
    aemitted,    \* attempt -> the events its body emitted, in order
    acollected,  \* attempt -> the result of its CollectEvents call
    begun,       \* storage: handle h was returned to attempt begun[h]
    contexts,    \* factory: context c wraps handle contexts[c].tx
    rollbacks,   \* storage: Rollback calls, by attempt and handle
    batches      \* sink: PublishEvents calls, by attempt and batch

callVars == <<pc, tx, ctxCanceled, txCtx, defers, panicking, recovered,
              bodyOut, bodyErr, bodyPanic, evbuf, emitted, collected,
              published, pubErr, calls, logs, exit, ret, exitPanic>>

concVars == <<apc, atx, actx, aemitted, acollected, begun, contexts,
              rollbacks, batches>>

vars == <<callVars, concVars>>

Attempts == 1..NumAttempts

ConcInit ==
    /\ apc = [a \in Attempts |-> "begin"]
    /\ atx = [a \in Attempts |-> 0]
    /\ actx = [a \in Attempts |-> 0]
    /\ aemitted = [a \in Attempts |-> <<>>]
    /\ acollected = [a \in Attempts |-> <<>>]
    /\ begun = <<>>
    /\ contexts = <<>>
    /\ rollbacks = <<>>
    /\ batches = <<>>

\* a collaborator call and how it ended (ok, err, panic; invoked for the
\* body, whose end is bodyOut), with the state of the ambient ctx and of
\* the attempt at the time of the call
Call(op, line, out, err) ==
    [op |-> op, line |-> line, out |-> out, err |-> err,
     ambientCanceled |-> ctxCanceled, exited |-> exit # "running"]

Init ==
    /\ pc = "begin"
    /\ tx = "none"
    /\ ctxCanceled \in BOOLEAN
    /\ txCtx = "none"
    /\ defers = <<>>
    /\ panicking = NoPanic
    /\ recovered = NoPanic
    /\ bodyOut = "notrun"
    /\ bodyErr = Nil
    /\ bodyPanic = NoPanic
    /\ evbuf = <<>>
    /\ emitted = <<>>
    /\ collected = <<>>
    /\ published = <<>>
    /\ pubErr = Nil
    /\ calls = <<>>
    /\ logs = <<>>
    /\ exit = "running"
    /\ ret = Nil
    /\ exitPanic = NoPanic
    /\ ConcInit

(* ------------------------- leaving Atomic ------------------------------ *)

\* where control goes when a return statement or a panic starts unwinding:
\* the deferred calls run last-in first-out, then Atomic is left
Unwind(ds) ==
    IF ds = <<>> THEN "exit" ELSE "defer_" \o ds[Len(ds)]

\* variant: the cancel of the child ctx is not deferred
registeredDefers_NoCancel == <<"recover">>

\* the deferred calls registered by lines 61 and 71, in registration order
registeredDefers == <<"recover", "cancel">>

\* variant: Begin's error is ignored
afterBegin_Ignored(err) == "newContext56"

\* line 52: the branch taken on Begin's error
afterBegin(err) == IF err # Nil THEN "return53" ELSE "newContext56"

\* variant: the factory's error is ignored
afterNewContext_Ignored(err) == "defer61"

\* variant: the handle is rolled back when the factory fails
afterNewContext_Rollback(err) == IF err # Nil THEN "rollback74" ELSE "defer61"

\* line 57: the branch taken on the factory's error
afterNewContext(err) == IF err # Nil THEN "return58" ELSE "defer61"

\* variant: the test of the body's error is inverted
afterBody_Inverted(err) == IF err = Nil THEN "rollback74" ELSE "collect80"

\* variant: the body's error is returned without rolling back
afterBody_NoRollback(err) == IF err # Nil THEN "return77" ELSE "collect80"

\* variant: events are published whatever the body returned
afterBody_AlwaysPublish(err) == "collect80"

\* variant: no rollback once the ambient ctx is canceled
afterBody_SkipWhenCanceled(err) ==
    IF err # Nil
    THEN (IF ctxCanceled THEN "return77" ELSE "rollback74")
    ELSE "collect80"

\* variant: a canceled ambient ctx is treated like a body error
afterBody_CheckCtx(err) ==
    IF err # Nil \/ ctxCanceled THEN "rollback74" ELSE "collect80"

\* line 73: the branch taken on the body's error
afterBody(err) == IF err # Nil THEN "rollback74" ELSE "collect80"

\* variant: the sink's error is dropped
afterPublish_Ignored(err) == "return85"

\* line 80: the branch taken on the sink's error
afterPublish(err) == IF err # Nil THEN "return82" ELSE "return85"

\* variant: the deferred closure recovers and does nothing else
afterRecover_Swallow(r, ds) == Unwind(ds)

\* line 62: the deferred closure rolls back only when there is a panic
afterRecover(r, ds) == IF r # NoPanic THEN "rollback63" ELSE Unwind(ds)

\* tx.Rollback() that returns nil ends an open transaction
rolledBack(t) == IF t = "open" THEN "rolledback" ELSE t

\* atomicCtx.Commit() by the body finalizes an open transaction
committed(t) == IF t = "open" THEN "committed" ELSE t

\* context.WithCancel(ctx): the child of a canceled parent is born canceled
withCancel(parentCanceled) == IF parentCanceled THEN "canceled" ELSE "active"

(* --------------------------- environment ------------------------------- *)

\* the caller (or a deadline) cancels the ambient ctx; the child follows
CancelAmbient ==
    /\ ~ctxCanceled
    /\ ctxCanceled' = TRUE
    /\ txCtx' = IF txCtx = "active" THEN "canceled" ELSE txCtx
    /\ UNCHANGED <<concVars, pc, tx, defers, panicking, recovered, bodyOut, bodyErr,
                   bodyPanic, evbuf, emitted, collected, published, pubErr,
                   calls, logs, exit, ret, exitPanic>>

(* ------------------------ lines 51-54: Begin --------------------------- *)

BeginOk ==
    /\ pc = "begin"
    /\ calls' = Append(calls, Call("Begin", 51, "ok", Nil))
    /\ tx' = "open"
    /\ pc' = afterBegin(Nil)
    /\ UNCHANGED <<concVars, ctxCanceled, txCtx, defers, panicking, recovered, bodyOut,
                   bodyErr, bodyPanic, evbuf, emitted, collected, published,
                   pubErr, logs, exit, ret, exitPanic>>

BeginFail(e) ==
    /\ pc = "begin"
    /\ calls' = Append(calls, Call("Begin", 51, "err", e))
    /\ ret' = e
    /\ pc' = afterBegin(e)
    /\ UNCHANGED <<concVars, tx, ctxCanceled, txCtx, defers, panicking, recovered,
                   bodyOut, bodyErr, bodyPanic, evbuf, emitted, collected,
                   published, pubErr, logs, exit, exitPanic>>

BeginPanic(v) ==
    /\ pc = "begin"
    /\ calls' = Append(calls, Call("Begin", 51, "panic", Nil))
    /\ panicking' = v
    /\ pc' = Unwind(defers)
    /\ UNCHANGED <<concVars, tx, ctxCanceled, txCtx, defers, recovered, bodyOut,
                   bodyErr, bodyPanic, evbuf, emitted, collected, published,
                   pubErr, logs, exit, ret, exitPanic>>

\* line 53: return stateRollbackError(err)
Return53 ==
    /\ pc = "return53"
    /\ ret' = stateRollbackError(ret)
    /\ pc' = Unwind(defers)
    /\ UNCHANGED <<concVars, tx, ctxCanceled, txCtx, defers, panicking, recovered,
                   bodyOut, bodyErr, bodyPanic, evbuf, emitted, collected,
                   published, pubErr, calls, logs, exit, exitPanic>>

(* --------------------- lines 56-59: newContext ------------------------- *)

NewContextOk ==
    /\ pc = "newContext56"
    /\ calls' = Append(calls, Call("newContext", 56, "ok", Nil))
    /\ pc' = afterNewContext(Nil)
    /\ UNCHANGED <<concVars, tx, ctxCanceled, txCtx, defers, panicking, recovered,
                   bodyOut, bodyErr, bodyPanic, evbuf, emitted, collected,
                   published, pubErr, logs, exit, ret, exitPanic>>

NewContextFail(e) ==
    /\ pc = "newContext56"
    /\ calls' = Append(calls, Call("newContext", 56, "err", e))
    /\ ret' = e
    /\ pc' = afterNewContext(e)
    /\ UNCHANGED <<concVars, tx, ctxCanceled, txCtx, defers, panicking, recovered,
                   bodyOut, bodyErr, bodyPanic, evbuf, emitted, collected,
                   published, pubErr, logs, exit, exitPanic>>

NewContextPanic(v) ==
    /\ pc = "newContext56"
    /\ calls' = Append(calls, Call("newContext", 56, "panic", Nil))
    /\ panicking' = v
    /\ pc' = Unwind(defers)
    /\ UNCHANGED <<concVars, tx, ctxCanceled, txCtx, defers, recovered, bodyOut,
                   bodyErr, bodyPanic, evbuf, emitted, collected, published,
                   pubErr, logs, exit, ret, exitPanic>>

\* line 58: return stateRollbackError(err)
Return58 ==
    /\ pc = "return58"
    /\ ret' = stateRollbackError(ret)
    /\ pc' = Unwind(defers)
    /\ UNCHANGED <<concVars, tx, ctxCanceled, txCtx, defers, panicking, recovered,
                   bodyOut, bodyErr, bodyPanic, evbuf, emitted, collected,
                   published, pubErr, calls, logs, exit, exitPanic>>

(* ------------- lines 61-71: deferred calls and child ctx --------------- *)

InstallDefers ==
    /\ pc = "defer61"
    /\ defers' = registeredDefers
    /\ txCtx' = withCancel(ctxCanceled)
    /\ pc' = "do73"
    /\ UNCHANGED <<concVars, tx, ctxCanceled, panicking, recovered, bodyOut, bodyErr,
                   bodyPanic, evbuf, emitted, collected, published, pubErr,
                   calls, logs, exit, ret, exitPanic>>

(* ------------------------ line 73: the body ---------------------------- *)

InvokeBody ==
    /\ pc = "do73"
    /\ calls' = Append(calls, Call("do", 73, "invoked", Nil))
    /\ bodyOut' = "running"
    /\ pc' = "body"
    /\ UNCHANGED <<concVars, tx, ctxCanceled, txCtx, defers, panicking, recovered,
                   bodyErr, bodyPanic, evbuf, emitted, collected, published,
                   pubErr, logs, exit, ret, exitPanic>>

\* business logic records a domain event on the atomic context
BodyEmit(e) ==
    /\ pc = "body"
    /\ Len(emitted) < MaxEvents
    /\ evbuf' = Append(evbuf, e)
    /\ emitted' = Append(emitted, e)
    /\ UNCHANGED <<concVars, pc, tx, ctxCanceled, txCtx, defers, panicking, recovered,
                   bodyOut, bodyErr, bodyPanic, collected, published, pubErr,
                   calls, logs, exit, ret, exitPanic>>

\* business logic calls atomicCtx.Commit() itself
BodyCommit ==
    /\ pc = "body"
    /\ tx = "open"
    /\ tx' = committed(tx)
    /\ UNCHANGED <<concVars, pc, ctxCanceled, txCtx, defers, panicking, recovered,
                   bodyOut, bodyErr, bodyPanic, evbuf, emitted, collected,
                   published, pubErr, calls, logs, exit, ret, exitPanic>>

BodyReturnNil ==
    /\ pc = "body"
    /\ bodyOut' = "nil"
    /\ bodyErr' = Nil
    /\ pc' = afterBody(Nil)
    /\ UNCHANGED <<concVars, tx, ctxCanceled, txCtx, defers, panicking, recovered,
                   bodyPanic, evbuf, emitted, collected, published, pubErr,
                   calls, logs, exit, ret, exitPanic>>

BodyReturnErr(e) ==
    /\ pc = "body"
    /\ bodyOut' = "err"
    /\ bodyErr' = e
    /\ pc' = afterBody(e)
    /\ UNCHANGED <<concVars, tx, ctxCanceled, txCtx, defers, panicking, recovered,
                   bodyPanic, evbuf, emitted, collected, published, pubErr,
                   calls, logs, exit, ret, exitPanic>>

BodyPanic(v) ==
    /\ pc = "body"
    /\ bodyOut' = "panic"
    /\ bodyPanic' = v
    /\ panicking' = v
    /\ pc' = Unwind(defers)
    /\ UNCHANGED <<concVars, tx, ctxCanceled, txCtx, defers, recovered, bodyErr, evbuf,
                   emitted, collected, published, pubErr, calls, logs, exit,
                   ret, exitPanic>>

(* ------------------ lines 74-77: the body returned an error ------------ *)

Rollback74Ok ==
    /\ pc = "rollback74"
    /\ calls' = Append(calls, Call("Rollback", 74, "ok", Nil))
    /\ tx' = rolledBack(tx)
    /\ pc' = "return77"
    /\ UNCHANGED <<concVars, ctxCanceled, txCtx, defers, panicking, recovered, bodyOut,
                   bodyErr, bodyPanic, evbuf, emitted, collected, published,
                   pubErr, logs, exit, ret, exitPanic>>

\* line 75: the rollback failure is logged
Rollback74Fail(e) ==
    /\ pc = "rollback74"
    /\ calls' = Append(calls, Call("Rollback", 74, "err", e))
    /\ logs' = Append(logs, [msg |-> "failed to rollback transaction", err |-> e])
    /\ pc' = "return77"
    /\ UNCHANGED <<concVars, tx, ctxCanceled, txCtx, defers, panicking, recovered,
                   bodyOut, bodyErr, bodyPanic, evbuf, emitted, collected,
                   published, pubErr, exit, ret, exitPanic>>

Rollback74Panic(v) ==
    /\ pc = "rollback74"
    /\ calls' = Append(calls, Call("Rollback", 74, "panic", Nil))
    /\ panicking' = v
    /\ pc' = Unwind(defers)
    /\ UNCHANGED <<concVars, tx, ctxCanceled, txCtx, defers, recovered, bodyOut,
                   bodyErr, bodyPanic, evbuf, emitted, collected, published,
                   pubErr, logs, exit, ret, exitPanic>>

\* variant: err at line 77 is the error of the Rollback of line 74, if any
errAt77_Rollback ==
    IF logs # <<>> THEN logs[Len(logs)].err ELSE bodyErr

\* the err in scope at line 77 is the one declared at line 73, the body's;
\* the err of line 74 is scoped to its own if statement
errAt77 == bodyErr

\* line 77: return stateRollbackError(err)
Return77 ==
    /\ pc = "return77"
    /\ ret' = stateRollbackError(errAt77)
    /\ pc' = Unwind(defers)
    /\ UNCHANGED <<concVars, tx, ctxCanceled, txCtx, defers, panicking, recovered,
                   bodyOut, bodyErr, bodyPanic, evbuf, emitted, collected,
                   published, pubErr, calls, logs, exit, exitPanic>>

(* ------------------ lines 80-85: the body returned nil ----------------- *)

\* line 80, the argument: atomicCtx.CollectEvents() drains the buffer
CollectOk ==
    /\ pc = "collect80"
    /\ calls' = Append(calls, Call("CollectEvents", 80, "ok", Nil))
    /\ collected' = evbuf
    /\ evbuf' = <<>>
    /\ pc' = "publish80"
    /\ UNCHANGED <<concVars, tx, ctxCanceled, txCtx, defers, panicking, recovered,
                   bodyOut, bodyErr, bodyPanic, emitted, published, pubErr,
                   logs, exit, ret, exitPanic>>

CollectPanic(v) ==
    /\ pc = "collect80"
    /\ calls' = Append(calls, Call("CollectEvents", 80, "panic", Nil))
    /\ panicking' = v
    /\ pc' = Unwind(defers)
    /\ UNCHANGED <<concVars, tx, ctxCanceled, txCtx, defers, recovered, bodyOut,
                   bodyErr, bodyPanic, evbuf, emitted, collected, published,
                   pubErr, logs, exit, ret, exitPanic>>

\* line 80, the call: msgBus.PublishEvents(collected...)
PublishOk ==
    /\ pc = "publish80"
    /\ calls' = Append(calls, Call("PublishEvents", 80, "ok", Nil))
    /\ published' = Append(published, collected)
    /\ pubErr' = Nil
    /\ pc' = afterPublish(Nil)
    /\ UNCHANGED <<concVars, tx, ctxCanceled, txCtx, defers, panicking, recovered,
                   bodyOut, bodyErr, bodyPanic, evbuf, emitted, collected,
                   logs, exit, ret, exitPanic>>

PublishFail(e) ==
    /\ pc = "publish80"
    /\ calls' = Append(calls, Call("PublishEvents", 80, "err", e))
    /\ published' = Append(published, collected)
    /\ pubErr' = e
    /\ pc' = afterPublish(e)
    /\ UNCHANGED <<concVars, tx, ctxCanceled, txCtx, defers, panicking, recovered,
                   bodyOut, bodyErr, bodyPanic, evbuf, emitted, collected,
                   logs, exit, ret, exitPanic>>

PublishPanic(v) ==
    /\ pc = "publish80"
    /\ calls' = Append(calls, Call("PublishEvents", 80, "panic", Nil))
    /\ published' = Append(published, collected)
    /\ panicking' = v
    /\ pc' = Unwind(defers)
    /\ UNCHANGED <<concVars, tx, ctxCanceled, txCtx, defers, recovered, bodyOut,
                   bodyErr, bodyPanic, evbuf, emitted, collected, pubErr,
                   logs, exit, ret, exitPanic>>

\* lines 81-82: log the publication error and return it
Return82 ==
    /\ pc = "return82"
    /\ logs' = Append(logs, [msg |-> "failed to publish events", err |-> pubErr])
    /\ ret' = publishError(pubErr)
    /\ pc' = Unwind(defers)
    /\ UNCHANGED <<concVars, tx, ctxCanceled, txCtx, defers, panicking, recovered,
                   bodyOut, bodyErr, bodyPanic, evbuf, emitted, collected,
                   published, pubErr, calls, exit, exitPanic>>

\* line 85: return nil
Return85 ==
    /\ pc = "return85"
    /\ ret' = Nil
    /\ pc' = Unwind(defers)
    /\ UNCHANGED <<concVars, tx, ctxCanceled, txCtx, defers, panicking, recovered,
                   bodyOut, bodyErr, bodyPanic, evbuf, emitted, collected,
                   published, pubErr, calls, logs, exit, exitPanic>>

(* ---------------------- the deferred calls ----------------------------- *)

\* line 71: defer cancel()
DeferCancel ==
    /\ pc = "defer_cancel"
    /\ calls' = Append(calls, Call("cancel", 71, "ok", Nil))
    /\ txCtx' = "canceled"
    /\ defers' = SubSeq(defers, 1, Len(defers) - 1)
    /\ pc' = Unwind(defers')
    /\ UNCHANGED <<concVars, tx, ctxCanceled, panicking, recovered, bodyOut, bodyErr,
                   bodyPanic, evbuf, emitted, collected, published, pubErr,
                   logs, exit, ret, exitPanic>>

\* line 62: r := recover() stops the panic in flight, if any
DeferRecover ==
    /\ pc = "defer_recover"
    /\ recovered' = panicking
    /\ panicking' = NoPanic
    /\ defers' = SubSeq(defers, 1, Len(defers) - 1)
    /\ pc' = afterRecover(panicking, defers')
    /\ UNCHANGED <<concVars, tx, ctxCanceled, txCtx, bodyOut, bodyErr, bodyPanic, evbuf,
                   emitted, collected, published, pubErr, calls, logs, exit,
                   ret, exitPanic>>

Rollback63Ok ==
    /\ pc = "rollback63"
    /\ calls' = Append(calls, Call("Rollback", 63, "ok", Nil))
    /\ tx' = rolledBack(tx)
    /\ pc' = "panic66"
    /\ UNCHANGED <<concVars, ctxCanceled, txCtx, defers, panicking, recovered, bodyOut,
                   bodyErr, bodyPanic, evbuf, emitted, collected, published,
                   pubErr, logs, exit, ret, exitPanic>>

\* line 64: the rollback failure is logged
Rollback63Fail(e) ==
    /\ pc = "rollback63"
    /\ calls' = Append(calls, Call("Rollback", 63, "err", e))
    /\ logs' = Append(logs, [msg |-> "failed to rollback transaction", err |-> e])
    /\ pc' = "panic66"
    /\ UNCHANGED <<concVars, tx, ctxCanceled, txCtx, defers, panicking, recovered,
                   bodyOut, bodyErr, bodyPanic, evbuf, emitted, collected,
                   published, pubErr, exit, ret, exitPanic>>

\* a panic of Rollback inside the deferred closure replaces the recovered one
Rollback63Panic(v) ==
    /\ pc = "rollback63"
    /\ calls' = Append(calls, Call("Rollback", 63, "panic", Nil))
    /\ panicking' = v
    /\ pc' = Unwind(defers)
    /\ UNCHANGED <<concVars, tx, ctxCanceled, txCtx, defers, recovered, bodyOut,
                   bodyErr, bodyPanic, evbuf, emitted, collected, published,
                   pubErr, logs, exit, ret, exitPanic>>

\* line 66: panic(r)
Panic66 ==
    /\ pc = "panic66"
    /\ panicking' = recovered
    /\ pc' = Unwind(defers)
    /\ UNCHANGED <<concVars, tx, ctxCanceled, txCtx, defers, recovered, bodyOut,
                   bodyErr, bodyPanic, evbuf, emitted, collected, published,
                   pubErr, calls, logs, exit, ret, exitPanic>>

\* control leaves Atomic: a panic in flight propagates to the caller,
\* otherwise the caller receives the named result err
Leave ==
    /\ pc = "exit"
    /\ exit' = IF panicking # NoPanic THEN "panicked" ELSE "returned"
    /\ exitPanic' = panicking
    /\ pc' = "done"
    /\ UNCHANGED <<concVars, tx, ctxCanceled, txCtx, defers, panicking, recovered,
                   bodyOut, bodyErr, bodyPanic, evbuf, emitted, collected,
                   published, pubErr, calls, logs, ret>>

Next ==
    \/ CancelAmbient
    \/ BeginOk
    \/ \E e \in BeginErrs : BeginFail(e)
    \/ \E v \in CollabPanics : BeginPanic(v)
    \/ Return53
    \/ NewContextOk
    \/ \E e \in FactoryErrs : NewContextFail(e)
    \/ \E v \in CollabPanics : NewContextPanic(v)
    \/ Return58
    \/ InstallDefers
    \/ InvokeBody
    \/ \E e \in Events : BodyEmit(e)
    \/ BodyCommit
    \/ BodyReturnNil
    \/ \E e \in BodyErrs : BodyReturnErr(e)
    \/ \E v \in BodyPanics : BodyPanic(v)
    \/ Rollback74Ok
    \/ \E e \in RollbackErrs : Rollback74Fail(e)
    \/ \E v \in CollabPanics : Rollback74Panic(v)
    \/ Return77
    \/ CollectOk
    \/ \E v \in CollabPanics : CollectPanic(v)
    \/ PublishOk
    \/ \E e \in PublishErrs : PublishFail(e)
    \/ \E v \in CollabPanics : PublishPanic(v)
    \/ Return82
    \/ Return85
    \/ DeferCancel
    \/ DeferRecover
    \/ Rollback63Ok
    \/ \E e \in RollbackErrs : Rollback63Fail(e)
    \/ \E v \in CollabPanics : Rollback63Panic(v)
    \/ Panic66
    \/ Leave

Spec == Init /\ [][Next]_vars

(* --------------------------- type invariant ---------------------------- *)

TypeOK ==
    /\ tx \in {"none", "open", "committed", "rolledback"}
    /\ ctxCanceled \in BOOLEAN
    /\ txCtx \in {"none", "active", "canceled"}
    /\ bodyOut \in {"notrun", "running", "nil", "err", "panic"}
    /\ exit \in {"running", "returned", "panicked"}
    /\ Len(emitted) <= MaxEvents
    /\ (exit = "running") = (pc # "done")

(* ----------------------- reading the call log -------------------------- *)

CallsOf(op) == {i \in DOMAIN calls : calls[i].op = op}

NumCalls(op) == Cardinality(CallsOf(op))

\* some call of op ended in a panic of the collaborator
Panicked(op) == \E i \in CallsOf(op) : calls[i].out = "panic"

Exited == exit # "running"

(* ------------------------------ claims --------------------------------- *)

C2_SuccessPublishesInOrder ==
    (exit = "returned" /\ bodyOut = "nil" /\ pubErr = Nil) =>
        /\ NumCalls("PublishEvents") = 1
        /\ published = <<emitted>>
        /\ NumCalls("Rollback") = 0
        /\ ret = Nil

C2_Witness ==
    /\ exit = "returned"
    /\ bodyOut = "nil"
    /\ published = << <<"e2", "e1">> >>
    /\ ret = Nil

C4_PublishErrorUntagged ==
    pubErr # Nil =>
        /\ bodyOut = "nil"
        /\ NumCalls("Rollback") = 0
        /\ exit # "panicked"
        /\ exit = "returned" =>
              /\ ret = pubErr
              /\ Is(ret, pubErr)
              /\ ~Is(ret, ErrRollback)

C4_Witness ==
    /\ exit = "returned"
    /\ pubErr = Leaf("G")
    /\ ret = Leaf("G")
    /\ tx = "open"

\* C5: when Begin failed with F, Begin is the only collaborator call of the
\* attempt (no factory, body, Rollback, CollectEvents or PublishEvents),
\* Atomic returns, and the returned error matches both F and ErrRollback.
C5_BeginFailureShortCircuits ==
    (calls # <<>> /\ calls[1].out = "err") =>
        /\ calls[1].op = "Begin"
        /\ Len(calls) = 1
        /\ bodyOut = "notrun"
        /\ published = <<>>
        /\ exit # "panicked"
        /\ exit = "returned" =>
              /\ Is(ret, calls[1].err)
              /\ Is(ret, ErrRollback)

C5_Witness ==
    /\ exit = "returned"
    /\ Len(calls) = 1
    /\ calls[1].op = "Begin"
    /\ calls[1].err = Leaf("F")
    /\ Is(ret, Leaf("F"))

\* C6: over every combination of collaborator outcomes (success, error,
\* panic), once control has left Atomic, Rollback was invoked exactly once
\* if the body returned a non-nil error or panicked, and not at all
\* otherwise.
C6_RollbackOnceIffBodyFailed ==
    Exited =>
        NumCalls("Rollback") = (IF bodyOut \in {"err", "panic"} THEN 1 ELSE 0)

C8_UntaggedReturnMeansCommitted ==
    (exit = "returned" /\ ~Is(ret, ErrRollback)) => tx = "committed"

\* C9 as stated: in every attempt exactly one of a Rollback of the handle
\* and a nil return of Atomic occurs.
C9_ExactlyOneOutcome ==
    Exited =>
        (NumCalls("Rollback") >= 1) # (exit = "returned" /\ ret = Nil)

BeginFailed == \E i \in CallsOf("Begin") : calls[i].out = "err"

FactoryFailed == \E i \in CallsOf("newContext") : calls[i].out = "err"

PublishAccepted == \E i \in CallsOf("PublishEvents") : calls[i].out = "ok"

\* C9 as amended: a Rollback and a nil return never both occur in one
\* attempt.  A Rollback occurs, and no nil return, when the body returned
\* an error or panicked; a nil return occurs, and no Rollback, when
\* PublishEvents returned nil; neither occurs when Begin, the factory or
\* PublishEvents returned an error: Atomic then returns a non-nil error
\* and the handle is not rolled back.
C9_AtMostOneOutcome ==
    /\ ~(NumCalls("Rollback") >= 1 /\ exit = "returned" /\ ret = Nil)
    /\ Exited =>
          /\ bodyOut \in {"err", "panic"} =>
                /\ NumCalls("Rollback") >= 1
                /\ ~(exit = "returned" /\ ret = Nil)
          /\ PublishAccepted =>
                /\ NumCalls("Rollback") = 0
                /\ exit = "returned" /\ ret = Nil
          /\ (BeginFailed \/ FactoryFailed \/ pubErr # Nil) =>
                /\ NumCalls("Rollback") = 0
                /\ exit = "returned" /\ ret # Nil

C9_Witness ==
    /\ Exited
    /\ pubErr # Nil
    /\ NumCalls("Rollback") = 0
    /\ ret # Nil

\* C10 as stated: Rollback is never invoked on the handle after control
\* has left Atomic, nor after the ambient ctx has been canceled.
C10_NoHandleUseAfterExitOrCancel ==
    \A i \in CallsOf("Rollback") :
        ~calls[i].exited /\ ~calls[i].ambientCanceled

\* C10 as amended: Rollback is never invoked on the handle after control
\* has left Atomic.  Cancellation of the ambient ctx does not stop Atomic
\* from using the handle: when the body was invoked with the ambient ctx
\* already canceled and returned an error or panicked, Rollback has still
\* been invoked, after the cancellation, by the time control leaves Atomic.
C10_NoHandleUseAfterExit ==
    /\ \A i \in CallsOf("Rollback") : ~calls[i].exited
    /\ (/\ Exited
        /\ bodyOut \in {"err", "panic"}
        /\ \E d \in CallsOf("do") : calls[d].ambientCanceled) =>
          \E i \in CallsOf("Rollback") : calls[i].ambientCanceled

C10_Witness ==
    /\ Exited
    /\ \E b \in CallsOf("Begin") : ~calls[b].ambientCanceled
    /\ \E d \in CallsOf("do") : calls[d].ambientCanceled
    /\ \E i \in CallsOf("Rollback") :
          calls[i].ambientCanceled /\ ~calls[i].exited
\* C11: once the body has been invoked, the child ctx handed to it is
\* canceled by the time control leaves Atomic, on every exit path (nil,
\* body error, publication error, panic), by the one deferred cancel();
\* and Atomic does not call cancel() while the body is still running.
C11_ChildCtxCanceledAtExit ==
    /\ (Exited /\ NumCalls("do") >= 1) =>
          /\ txCtx = "canceled"
          /\ NumCalls("cancel") = 1
    /\ \A i \in CallsOf("cancel") :
          /\ ~calls[i].exited
          /\ \E d \in CallsOf("do") : d < i
    /\ bodyOut = "running" => NumCalls("cancel") = 0

C11_Witness ==
    /\ Exited
    /\ ~ctxCanceled
    /\ bodyOut = "nil"
    /\ pubErr # Nil
    /\ txCtx = "canceled"

\* C12: when Begin succeeded and the factory failed with C, Atomic makes no
\* further collaborator call (no body, CollectEvents, PublishEvents, and no
\* Rollback on the handle Begin returned, which stays open), and it
\* returns an error matching both C and ErrRollback.
C12_FactoryFailureShortCircuits ==
    FactoryFailed =>
        /\ Len(calls) = 2
        /\ calls[1].op = "Begin" /\ calls[1].out = "ok"
        /\ calls[2].op = "newContext"
        /\ bodyOut = "notrun"
        /\ published = <<>>
        /\ NumCalls("Rollback") = 0
        /\ tx = "open"
        /\ exit # "panicked"
        /\ exit = "returned" =>
              /\ Is(ret, calls[2].err)
              /\ Is(ret, ErrRollback)

C12_Witness ==
    /\ exit = "returned"
    /\ FactoryFailed
    /\ Is(ret, Leaf("C"))
    /\ tx = "open"

\* C13: a Rollback that fails with R does not change what the caller
\* observes: after a body error E, the error Atomic returns matches E and
\* ErrRollback and does not match R; after a body panic P, the panic that
\* leaves Atomic carries P.  The failure is only logged.
RollbackFailed == \E i \in CallsOf("Rollback") : calls[i].out = "err"

C13_RollbackFailureNotObserved ==
    (Exited /\ RollbackFailed /\ ~Panicked("Rollback")) =>
        /\ \E i \in DOMAIN logs :
              logs[i].msg = "failed to rollback transaction"
        /\ bodyOut = "err" =>
              /\ exit = "returned"
              /\ Is(ret, bodyErr)
              /\ Is(ret, ErrRollback)
              /\ \A r \in RollbackErrs : ~Is(ret, r)
        /\ bodyOut = "panic" =>
              /\ exit = "panicked"
              /\ exitPanic = bodyPanic

C13_Witness ==
    /\ exit = "returned"
    /\ bodyOut = "err"
    /\ RollbackFailed
    /\ logs # <<>>
    /\ Is(ret, bodyErr)

\* C14: Atomic returns nil exactly when Begin, the factory, the body and
\* PublishEvents all succeeded; every other return carries a non-nil
\* error, which matches ErrRollback exactly when the failure was in Begin,
\* the factory or the body.
C14_NilIffAllSucceeded ==
    /\ PublishAccepted =>
          /\ bodyOut = "nil"
          /\ \E i \in CallsOf("Begin") : calls[i].out = "ok"
          /\ \E i \in CallsOf("newContext") : calls[i].out = "ok"
          /\ Exited => (exit = "returned" /\ ret = Nil)
    /\ exit = "returned" =>
          /\ (ret = Nil) = PublishAccepted
          /\ ret # Nil =>
                (Is(ret, ErrRollback) =
                    (BeginFailed \/ FactoryFailed \/ bodyOut = "err"))
          /\ ret # Nil =>
                (BeginFailed \/ FactoryFailed \/ bodyOut = "err" \/ pubErr # Nil)

C14_Witness ==
    /\ exit = "returned"
    /\ ret = Nil
    /\ PublishAccepted
    /\ Len(emitted) = 1
\* C17: nothing is retried: within one call of Atomic every collaborator
\* operation is invoked at most once, whatever errors or panics the
\* collaborators produce, and Begin is invoked exactly once.
Operations ==
    {"Begin", "newContext", "do", "Rollback", "CollectEvents", "PublishEvents"}

C17_NothingRetried ==
    /\ \A op \in Operations : NumCalls(op) <= 1
    /\ Exited => NumCalls("Begin") = 1

\* C18: the collaborator calls of one attempt are ordered: the factory is
\* called only after Begin succeeded, the body only after the factory
\* succeeded, CollectEvents only after the body returned nil, and
\* PublishEvents only right after CollectEvents returned; CollectEvents is
\* never called when Begin or the factory failed or the body returned an
\* error or panicked; and the batch passed to PublishEvents is the sequence
\* that one CollectEvents call returned, the drained buffer.
C18_CallOrder ==
    /\ \A i \in DOMAIN calls :
          /\ i = 1 => calls[i].op = "Begin"
          /\ calls[i].op = "newContext" =>
                (i = 2 /\ calls[1].op = "Begin" /\ calls[1].out = "ok")
          /\ calls[i].op = "do" =>
                (i = 3 /\ calls[2].op = "newContext" /\ calls[2].out = "ok")
          /\ calls[i].op = "CollectEvents" =>
                (i = 4 /\ calls[3].op = "do" /\ bodyOut = "nil")
          /\ calls[i].op = "PublishEvents" =>
                (i = 5 /\ calls[4].op = "CollectEvents" /\ calls[4].out = "ok")
    /\ (BeginFailed \/ FactoryFailed \/ bodyOut \in {"err", "panic"}) =>
          NumCalls("CollectEvents") = 0
    /\ NumCalls("CollectEvents") <= 1
    /\ (\E i \in CallsOf("CollectEvents") : calls[i].out = "ok") =>
          (collected = emitted /\ evbuf = <<>>)
    /\ \A k \in DOMAIN published : published[k] = collected

C18_Witness ==
    /\ Exited
    /\ Len(calls) >= 5
    /\ calls[4].op = "CollectEvents"
    /\ calls[5].op = "PublishEvents"
    /\ published = << <<"e1", "e2">> >>

\* C19: Atomic never invokes Commit or Close on the atomic context, and on
\* the success path (the body returned nil; CollectEvents and
\* PublishEvents, the only operations performed after it, returned) no
\* step of Atomic changes the state of the transaction: it is left as the
\* body left it.
C19_NoCommitNoClose ==
    [][/\ \A i \in DOMAIN calls' : calls'[i].op \notin {"Commit", "Close"}
       /\ (/\ bodyOut = "nil"
           /\ ~Panicked("CollectEvents")
           /\ ~Panicked("PublishEvents")) => tx' = tx]_vars

C19_Witness ==
    /\ exit = "returned"
    /\ bodyOut = "nil"
    /\ ret = Nil
    /\ tx = "open"
    /\ NumCalls("CollectEvents") = 1
    /\ NumCalls("PublishEvents") = 1

HonouredBeginOk == ~ctxCanceled /\ BeginOk

HonouredBeginFail(e) == BeginFail(e)

HonouredBeginPanic(v) == ~ctxCanceled /\ BeginPanic(v)

\* the steps of the goroutine that runs Atomic, with such a backend
HonouredStep ==
    \/ HonouredBeginOk
    \/ \E e \in BeginErrs : HonouredBeginFail(e)
    \/ \E v \in CollabPanics : HonouredBeginPanic(v)
    \/ Return53
    \/ NewContextOk
    \/ \E e \in FactoryErrs : NewContextFail(e)
    \/ \E v \in CollabPanics : NewContextPanic(v)
    \/ Return58
    \/ InstallDefers
    \/ InvokeBody
    \/ \E e \in Events : BodyEmit(e)
    \/ BodyCommit
    \/ BodyReturnNil
    \/ \E e \in BodyErrs : BodyReturnErr(e)
    \/ \E v \in BodyPanics : BodyPanic(v)
    \/ Rollback74Ok
    \/ \E e \in RollbackErrs : Rollback74Fail(e)
    \/ \E v \in CollabPanics : Rollback74Panic(v)
    \/ Return77
    \/ CollectOk
    \/ \E v \in CollabPanics : CollectPanic(v)
    \/ PublishOk
    \/ \E e \in PublishErrs : PublishFail(e)
    \/ \E v \in CollabPanics : PublishPanic(v)
    \/ Return82
    \/ Return85
    \/ DeferCancel
    \/ DeferRecover
    \/ Rollback63Ok
    \/ \E e \in RollbackErrs : Rollback63Fail(e)
    \/ \E v \in CollabPanics : Rollback63Panic(v)
    \/ Panic66
    \/ Leave

NextHonoured == CancelAmbient \/ HonouredStep

\* Atomic runs synchronously on the caller's goroutine and every
\* collaborator call comes back, so a step that stays possible is taken
SpecHonoured == Init /\ [][NextHonoured]_vars /\ WF_vars(HonouredStep)

\* C16: with a backend that honours cancellation, whenever the ambient ctx
\* is canceled before Begin is called or while Begin is blocked, Atomic
\* eventually returns, with an error that matches ErrRollback and Begin's
\* error, Begin being the only collaborator call made: the body is never
\* invoked.
C16_CanceledBeginReturns ==
    (pc = "begin" /\ ctxCanceled) ~>
        (/\ exit = "returned"
         /\ Len(calls) = 1
         /\ calls[1].op = "Begin" /\ calls[1].out = "err"
         /\ Is(ret, calls[1].err)
         /\ Is(ret, ErrRollback)
         /\ bodyOut = "notrun")

C16_Witness ==
    /\ exit = "returned"
    /\ Len(calls) = 1
    /\ calls[1].op = "Begin"
    /\ calls[1].ambientCanceled
    /\ Is(ret, ErrRollback)
    /\ bodyOut = "notrun"
(* ---------------- concurrent calls on one UnitOfWork ------------------- *)

\* Atomic keeps no per-call state in the UnitOfWork value (db, newContext,
\* msgBus and logger are only read): the handle and the context live in
\* the locals tx and atomicCtx of each call.  Each attempt below runs the
\* statements of Atomic that touch the handle, the context or the sink.

\* variant: the handle is kept in a field of the shared UnitOfWork
txOf_Latest(a) == Len(begun)

\* line 51: tx is a local of the call
txOf(a) == atx[a]

\* variant: the context is kept in a field of the shared UnitOfWork
ctxOf_Latest(a) == Len(contexts)

\* line 56: atomicCtx is a local of the call
ctxOf(a) == actx[a]

\* line 51: Begin returns a handle of its own to every call
ConcBeginOk(a) ==
    /\ apc[a] = "begin"
    /\ begun' = Append(begun, a)
    /\ atx' = [atx EXCEPT ![a] = Len(begun) + 1]
    /\ apc' = [apc EXCEPT ![a] = afterBegin(Nil)]
    /\ UNCHANGED <<callVars, actx, aemitted, acollected, contexts, rollbacks,
                   batches>>

\* lines 52-54
ConcBeginFail(a) ==
    /\ apc[a] = "begin"
    /\ apc' = [apc EXCEPT ![a] = "done"]
    /\ UNCHANGED <<callVars, atx, actx, aemitted, acollected, begun, contexts,
                   rollbacks, batches>>

\* line 56: the factory wraps the handle it is given
ConcNewContextOk(a) ==
    /\ apc[a] = "newContext56"
    /\ contexts' = Append(contexts, [tx |-> txOf(a), buf |-> <<>>])
    /\ actx' = [actx EXCEPT ![a] = Len(contexts) + 1]
    /\ apc' = [apc EXCEPT ![a] = "body"]
    /\ UNCHANGED <<callVars, atx, aemitted, acollected, begun, rollbacks,
                   batches>>

\* lines 57-59
ConcNewContextFail(a) ==
    /\ apc[a] = "newContext56"
    /\ apc' = [apc EXCEPT ![a] = "done"]
    /\ UNCHANGED <<callVars, atx, actx, aemitted, acollected, begun, contexts,
                   rollbacks, batches>>

\* a domain event is a fact of its own: the next event of attempt a
ConcEvent(a) == [by |-> a, n |-> Len(aemitted[a]) + 1]

\* line 73: the body records an event on the context it was handed
ConcBodyEmit(a) ==
    /\ apc[a] = "body"
    /\ Len(aemitted[a]) < MaxConcEvents
    /\ contexts' = [contexts EXCEPT
                      ![ctxOf(a)].buf =
                          Append(contexts[ctxOf(a)].buf, ConcEvent(a))]
    /\ aemitted' = [aemitted EXCEPT ![a] = Append(aemitted[a], ConcEvent(a))]
    /\ UNCHANGED <<callVars, apc, atx, actx, acollected, begun, rollbacks,
                   batches>>

ConcBodyReturnNil(a) ==
    /\ apc[a] = "body"
    /\ apc' = [apc EXCEPT ![a] = afterBody(Nil)]
    /\ UNCHANGED <<callVars, atx, actx, aemitted, acollected, begun, contexts,
                   rollbacks, batches>>

ConcBodyReturnErr(a) ==
    /\ apc[a] = "body"
    /\ apc' = [apc EXCEPT ![a] = afterBody(Leaf("E"))]
    /\ UNCHANGED <<callVars, atx, actx, aemitted, acollected, begun, contexts,
                   rollbacks, batches>>

\* the panic unwinds through cancel() into the recover closure
ConcBodyPanic(a) ==
    /\ apc[a] = "body"
    /\ apc' = [apc EXCEPT ![a] = "rollback63"]
    /\ UNCHANGED <<callVars, atx, actx, aemitted, acollected, begun, contexts,
                   rollbacks, batches>>

\* lines 63 and 74: tx.Rollback(), then the return or the re-panic
ConcRollback(a) ==
    /\ apc[a] \in {"rollback74", "rollback63"}
    /\ rollbacks' = Append(rollbacks, [by |-> a, handle |-> txOf(a)])
    /\ apc' = [apc EXCEPT ![a] = "done"]
    /\ UNCHANGED <<callVars, atx, actx, aemitted, acollected, begun, contexts,
                   batches>>

\* line 80, the argument: atomicCtx.CollectEvents() drains the context
ConcCollect(a) ==
    /\ apc[a] = "collect80"
    /\ acollected' = [acollected EXCEPT ![a] = contexts[ctxOf(a)].buf]
    /\ contexts' = [contexts EXCEPT ![ctxOf(a)].buf = <<>>]
    /\ apc' = [apc EXCEPT ![a] = "publish80"]
    /\ UNCHANGED <<callVars, atx, actx, aemitted, begun, rollbacks, batches>>

\* line 80, the call: PublishEvents returns (nil or an error)
ConcPublish(a) ==
    /\ apc[a] = "publish80"
    /\ batches' = Append(batches, [by |-> a, events |-> acollected[a]])
    /\ apc' = [apc EXCEPT ![a] = "done"]
    /\ UNCHANGED <<callVars, atx, actx, aemitted, acollected, begun, contexts,
                   rollbacks>>

\* line 80, the call: PublishEvents panics, the recover closure runs
ConcPublishPanic(a) ==
    /\ apc[a] = "publish80"
    /\ batches' = Append(batches, [by |-> a, events |-> acollected[a]])
    /\ apc' = [apc EXCEPT ![a] = "rollback63"]
    /\ UNCHANGED <<callVars, atx, actx, aemitted, acollected, begun, contexts,
                   rollbacks>>

NextConc ==
    \E a \in Attempts :
        \/ ConcBeginOk(a)
        \/ ConcBeginFail(a)
        \/ ConcNewContextOk(a)
        \/ ConcNewContextFail(a)
        \/ ConcBodyEmit(a)
        \/ ConcBodyReturnNil(a)
        \/ ConcBodyReturnErr(a)
        \/ ConcBodyPanic(a)
        \/ ConcRollback(a)
        \/ ConcCollect(a)
        \/ ConcPublish(a)
        \/ ConcPublishPanic(a)

InitConc == Init /\ ~ctxCanceled

SpecConc == InitConc /\ [][NextConc]_vars

\* C15: with several Atomic calls running concurrently on one UnitOfWork,
\* under every interleaving each attempt works on the handle its own Begin
\* returned and on the context its own factory call built from it: every
\* Rollback is applied to the handle of the attempt that made it, and the
\* batch an attempt publishes is exactly what that attempt's own body
\* emitted.
C15_AttemptsIsolated ==
    /\ \A k \in DOMAIN rollbacks :
          /\ rollbacks[k].handle \in DOMAIN begun
          /\ begun[rollbacks[k].handle] = rollbacks[k].by
    /\ \A k \in DOMAIN batches :
          batches[k].events = aemitted[batches[k].by]
    /\ \A a \in Attempts :
          /\ atx[a] # 0 => begun[atx[a]] = a
          /\ actx[a] # 0 => contexts[actx[a]].tx = atx[a]
          /\ \A b \in Attempts \ {a} :
                /\ atx[a] # 0 => atx[a] # atx[b]
                /\ actx[a] # 0 => actx[a] # actx[b]

C15_Witness ==
    /\ begun = <<1, 2>>
    /\ contexts # <<>>
    /\ \E k \in DOMAIN rollbacks :
          rollbacks[k].by = 1 /\ rollbacks[k].handle = 1
    /\ \E k \in DOMAIN batches :
          batches[k].by = 2 /\ batches[k].events # <<>>
    /\ aemitted[1] # <<>>
====
